---- MODULE Spec2Model ----
(***************************************************************************)
(* The useList hook of packages/core/src/hooks/data/useList.ts: option     *)
(* merging, pagination mode, query key, getList arguments, client-side     *)
(* slicing, success/error callbacks and the live subscription, driven by   *)
(* the query library's lifecycle (mount, query function, retry, success,   *)
(* failure).                                                               *)
(*                                                                         *)
(* An optional JavaScript value is a set with at most one element:         *)
(* Undefined is {} and a defined value v is {v}.                           *)
(***************************************************************************)
EXTENDS Integers, Sequences, FiniteSets, TLC

VARIABLES props, mounted, subscription, queryState, elapsedTime, calls, fetches, failures

\* the query cache of the query library: the queries of the keys the hook
\* observed before its props changed, and the number of such changes
VARIABLES cache, renders

\* the kanban board of the tutorial: the orders state of DashboardPage, the card
\* being dragged and the drop result of the drag monitor
VARIABLES orders, dragging, dropResult

hookVars ==
    <<props, mounted, subscription, queryState, elapsedTime, calls, fetches, failures,
      cache, renders>>

kanbanVars == <<orders, dragging, dropResult>>

vars == <<hookVars, cache, renders, kanbanVars>>

(* ---------------------------- bounds ----------------------------------- *)

MaxFetches == 2

MaxItems == 3

MaxCurrent == 2

MaxPageSize == 2

MaxTicks == 2

MaxOrders == 3

MaxRenders == 1

(* ------------------------ JavaScript values ---------------------------- *)

Undefined == {}

Def(v) == {v}

IsDefined(x) == x # {}

Val(x) == CHOOSE v \in x : TRUE

\* a ?? d
Nullish(x, d) == IF IsDefined(x) THEN Val(x) ELSE d

\* o?.f
Field(o, f) == IF IsDefined(o) THEN Val(o)[f] ELSE Undefined

\* `${x}` of an optional string
Str(x) == IF IsDefined(x) THEN Val(x) ELSE "undefined"

EmptyObject == [k \in {} |-> TRUE]

\* {...o} of an optional object
Spread(o) == IF IsDefined(o) THEN Val(o) ELSE EmptyObject

Min(a, b) == IF a < b THEN a ELSE b

Max(a, b) == IF a > b THEN a ELSE b

\* Array.prototype.slice(start, end) on a sequence, indices zero-based
Slice(arr, start, end) ==
    LET len == Len(arr)
        from == IF start < 0 THEN Max(len + start, 0) ELSE Min(start, len)
        to == IF end < 0 THEN Max(len + end, 0) ELSE Min(end, len)
    IN IF from >= to THEN <<>> ELSE SubSeq(arr, from + 1, to)

(* ------------------- helpers the hook imports -------------------------- *)

\* the resources registered on <Refine>: "posts" has an identifier of its own
Resources == {[name |-> "posts", identifier |-> "blog-posts", meta |-> [label |-> "Posts"]]}

useResource(resourceFromProp) ==
    IF ~IsDefined(resourceFromProp)
    THEN [resource |-> Undefined, identifier |-> Undefined]
    ELSE LET found == {r \in Resources : r.identifier = Val(resourceFromProp) \/ r.name = Val(resourceFromProp)}
         IN IF found # {}
            THEN [resource |-> Def(CHOOSE r \in found : TRUE),
                  identifier |-> Def((CHOOSE r \in found : TRUE).identifier)]
            ELSE [resource |-> Def([name |-> Val(resourceFromProp),
                                    identifier |-> Val(resourceFromProp),
                                    meta |-> EmptyObject]),
                  identifier |-> resourceFromProp]

pickNotDeprecated(current, deprecated) ==
    IF IsDefined(current) THEN current ELSE deprecated

pickDataProvider(identifier, dataProviderName, resources) ==
    IF IsDefined(dataProviderName) THEN Val(dataProviderName) ELSE "default"

handlePaginationParams(pagination, configPagination, hasPagination) ==
    [current |-> Nullish(pickNotDeprecated(Field(pagination, "current"),
                                           Field(configPagination, "current")), 1),
     pageSize |-> Nullish(pickNotDeprecated(Field(pagination, "pageSize"),
                                            Field(configPagination, "pageSize")), 10),
     mode |-> IF hasPagination = Def(FALSE) THEN "client" ELSE "server"]

\* useMeta: the resource's meta, overridden by the meta of the call
getMeta(resource, meta) ==
    Spread(meta) @@ (IF IsDefined(resource) THEN Val(resource).meta ELSE EmptyObject)

\* useTranslate without an i18n provider: the call is kept as it was made
translate(key, options, defaultMessage) ==
    [key |-> key, options |-> options, defaultMessage |-> defaultMessage]

\* queryKeys(resource, dataProviderName, meta)
queryKeys(identifier, dataProviderName, meta) ==
    [resourceAll |-> <<dataProviderName, Nullish(identifier, "")>>, meta |-> Spread(meta)]

\* queryKey.list(config)
queryKeyList(queryKey, config) ==
    <<queryKey.resourceAll[1], queryKey.resourceAll[2], "list", queryKey.meta @@ config>>

(* ------------------- the body of useList ------------------------------- *)

resourceOf(p) == useResource(p.resource).resource

identifierOf(p) == useResource(p.resource).identifier

pickedDataProvider(p) == pickDataProvider(identifierOf(p), p.dataProviderName, Resources)

preferredMeta(p) == pickNotDeprecated(p.meta, p.metaData)

\* the pair handed over in the wrong order
prefferedFilters_Swapped(p) == pickNotDeprecated(Field(p.config, "filters"), p.filters)

prefferedFilters(p) == pickNotDeprecated(p.filters, Field(p.config, "filters"))

prefferedSorters(p) == pickNotDeprecated(p.sorters, Field(p.config, "sort"))

prefferedHasPagination(p) == pickNotDeprecated(p.hasPagination, Field(p.config, "hasPagination"))

\* the deprecated config.pagination left out
prefferedPagination_NoConfig(p) ==
    handlePaginationParams(p.pagination, Undefined, prefferedHasPagination(p))

prefferedPagination(p) ==
    handlePaginationParams(p.pagination, Field(p.config, "pagination"), prefferedHasPagination(p))

isServerPagination(p) == prefferedPagination(p).mode = "server"

combinedMeta(p) == getMeta(resourceOf(p), preferredMeta(p))

\* hasPagination taken from the prop instead of the derived mode
notificationValues_RawFlag(p) ==
    [meta |-> combinedMeta(p),
     metaData |-> combinedMeta(p),
     filters |-> prefferedFilters(p),
     hasPagination |-> Nullish(p.hasPagination, TRUE),
     pagination |-> prefferedPagination(p),
     sorters |-> prefferedSorters(p),
     config |-> [sort |-> prefferedSorters(p)] @@ Spread(p.config)]

notificationValues(p) ==
    [meta |-> combinedMeta(p),
     metaData |-> combinedMeta(p),
     filters |-> prefferedFilters(p),
     hasPagination |-> isServerPagination(p),
     pagination |-> prefferedPagination(p),
     sorters |-> prefferedSorters(p),
     config |-> [sort |-> prefferedSorters(p)] @@ Spread(p.config)]

isEnabled(p) ==
    p.queryOptions.enabled = Undefined \/ p.queryOptions.enabled = Def(TRUE)

queryKey(p) == queryKeys(identifierOf(p), pickedDataProvider(p), preferredMeta(p))

\* resource?.name
resourceName(p) ==
    IF IsDefined(resourceOf(p)) THEN Def(Val(resourceOf(p)).name) ELSE Undefined

\* the channel named after the identifier instead of the resource name
useResourceSubscription_IdentifierChannel(p) ==
    [resource |-> identifierOf(p),
     types |-> <<"*">>,
     params |-> Spread(p.liveParams) @@
                [meta |-> combinedMeta(p),
                 metaData |-> combinedMeta(p),
                 pagination |-> prefferedPagination(p),
                 hasPagination |-> isServerPagination(p),
                 sort |-> prefferedSorters(p),
                 sorters |-> prefferedSorters(p),
                 filters |-> prefferedFilters(p),
                 subscriptionType |-> "useList"],
     channel |-> "resources/" \o Str(identifierOf(p)),
     enabled |-> isEnabled(p),
     liveMode |-> p.liveMode,
     onLiveEvent |-> p.onLiveEvent]

\* liveParams spread before the defaults, which then win
useResourceSubscription_DefaultsWin(p) ==
    [resource |-> identifierOf(p),
     types |-> <<"*">>,
     params |-> [meta |-> combinedMeta(p),
                 metaData |-> combinedMeta(p),
                 pagination |-> prefferedPagination(p),
                 hasPagination |-> isServerPagination(p),
                 sort |-> prefferedSorters(p),
                 sorters |-> prefferedSorters(p),
                 filters |-> prefferedFilters(p),
                 subscriptionType |-> "useList"] @@
                Spread(p.liveParams),
     channel |-> "resources/" \o Str(resourceName(p)),
     enabled |-> isEnabled(p),
     liveMode |-> p.liveMode,
     onLiveEvent |-> p.onLiveEvent]

\* the argument of useResourceSubscription
useResourceSubscription(p) ==
    [resource |-> identifierOf(p),
     types |-> <<"*">>,
     params |-> Spread(p.liveParams) @@
                [meta |-> combinedMeta(p),
                 metaData |-> combinedMeta(p),
                 pagination |-> prefferedPagination(p),
                 hasPagination |-> isServerPagination(p),
                 sort |-> prefferedSorters(p),
                 sorters |-> prefferedSorters(p),
                 filters |-> prefferedFilters(p),
                 subscriptionType |-> "useList"],
     channel |-> "resources/" \o Str(resourceName(p)),
     enabled |-> isEnabled(p),
     liveMode |-> p.liveMode,
     onLiveEvent |-> p.onLiveEvent]

\* the pagination left out of the key under every mode
listConfig_NoPagination(p) ==
    (IF IsDefined(Field(p.config, "sort")) THEN [sort |-> Field(p.config, "sort")] ELSE EmptyObject) @@
    (IF IsDefined(p.sorters) THEN [sorters |-> p.sorters] ELSE EmptyObject) @@
    [filters |-> prefferedFilters(p), hasPagination |-> isServerPagination(p)]

\* the pagination put in the key under every mode
listConfig_AlwaysPagination(p) ==
    (IF IsDefined(Field(p.config, "sort")) THEN [sort |-> Field(p.config, "sort")] ELSE EmptyObject) @@
    (IF IsDefined(p.sorters) THEN [sorters |-> p.sorters] ELSE EmptyObject) @@
    [pagination |-> prefferedPagination(p)] @@
    [filters |-> prefferedFilters(p), hasPagination |-> isServerPagination(p)]

\* the argument of queryKey.list: later spreads win
listConfig(p) ==
    (IF IsDefined(Field(p.config, "sort")) THEN [sort |-> Field(p.config, "sort")] ELSE EmptyObject) @@
    (IF IsDefined(p.sorters) THEN [sorters |-> p.sorters] ELSE EmptyObject) @@
    (IF isServerPagination(p) THEN [pagination |-> prefferedPagination(p)] ELSE EmptyObject) @@
    [filters |-> prefferedFilters(p), hasPagination |-> isServerPagination(p)]

useQueryKey(p) == queryKeyList(queryKey(p), listConfig(p))

\* the context the query library hands to the query function
QueryContext(p, n) ==
    [queryKey |-> useQueryKey(p), pageParam |-> Undefined, signal |-> n]

\* sort taken from the sorters prop instead of the effective sorters
queryFn_RawSort(p, context) ==
    [fn |-> "getList",
     args |-> [resource |-> Nullish(resourceName(p), ""),
               pagination |-> prefferedPagination(p),
               hasPagination |-> isServerPagination(p),
               filters |-> prefferedFilters(p),
               sort |-> p.sorters,
               sorters |-> prefferedSorters(p),
               meta |-> [queryContext |-> context] @@ combinedMeta(p),
               metaData |-> [queryContext |-> context] @@ combinedMeta(p)]]

\* the query function: the getList call it makes
queryFn(p, context) ==
    [fn |-> "getList",
     args |-> [resource |-> Nullish(resourceName(p), ""),
               pagination |-> prefferedPagination(p),
               hasPagination |-> isServerPagination(p),
               filters |-> prefferedFilters(p),
               sort |-> prefferedSorters(p),
               sorters |-> prefferedSorters(p),
               meta |-> [queryContext |-> context] @@ combinedMeta(p),
               metaData |-> [queryContext |-> context] @@ combinedMeta(p)]]

\* the enabled flag of the subscription used for the query
queryEnabled_IsEnabled(p) == isEnabled(p)

\* enabled option handed to useQuery
queryEnabled(p) ==
    IF IsDefined(p.queryOptions.enabled)
    THEN Val(p.queryOptions.enabled)
    ELSE Nullish(resourceName(p), "") # ""

Reverse(s) == [i \in 1..Len(s) |-> s[Len(s) + 1 - i]]

\* a select function supplied by the caller
queryOptionsSelect(data) == [data EXCEPT !.data = Reverse(data.data)]

\* the page counted from zero: the slice starts at current * pageSize
select_OffByOne(p, rawData) ==
    LET pg == prefferedPagination(p)
        data == IF pg.mode = "client"
                THEN [rawData EXCEPT !.data = Slice(rawData.data,
                                                    pg.current * pg.pageSize,
                                                    (pg.current + 1) * pg.pageSize)]
                ELSE rawData
    IN IF p.queryOptions.select THEN queryOptionsSelect(data) ELSE data

\* the mode test inverted: the slice is taken under server pagination
select_SliceOnServer(p, rawData) ==
    LET pg == prefferedPagination(p)
        data == IF pg.mode = "server"
                THEN [rawData EXCEPT !.data = Slice(rawData.data,
                                                    (pg.current - 1) * pg.pageSize,
                                                    pg.current * pg.pageSize)]
                ELSE rawData
    IN IF p.queryOptions.select THEN queryOptionsSelect(data) ELSE data

\* the total replaced by the length of the page
slicedData_TotalIsLength(p, rawData) ==
    LET pg == prefferedPagination(p)
        page == Slice(rawData.data, (pg.current - 1) * pg.pageSize, pg.current * pg.pageSize)
    IN IF pg.mode = "client"
       THEN [rawData EXCEPT !.data = page, !.total = Len(page)]
       ELSE rawData

\* the slice ended one element late: pages overlap
slicedData_Overlap(p, rawData) ==
    LET pg == prefferedPagination(p)
    IN IF pg.mode = "client"
       THEN [rawData EXCEPT !.data = Slice(rawData.data,
                                           (pg.current - 1) * pg.pageSize,
                                           pg.current * pg.pageSize + 1)]
       ELSE rawData

\* select: the local data after the slice of client mode
slicedData(p, rawData) ==
    LET pg == prefferedPagination(p)
    IN IF pg.mode = "client"
       THEN [rawData EXCEPT !.data = Slice(rawData.data,
                                           (pg.current - 1) * pg.pageSize,
                                           pg.current * pg.pageSize)]
       ELSE rawData

\* the calls one run of select makes to the caller's select
selectCalls(p, rawData) ==
    IF p.queryOptions.select
    THEN <<[fn |-> "queryOptions.select", args |-> <<slicedData(p, rawData)>>]>>
    ELSE <<>>

\* the caller's select applied to the fetched response, the slice taken after
select_BeforeSlice(p, rawData) ==
    IF p.queryOptions.select
    THEN slicedData(p, queryOptionsSelect(rawData))
    ELSE slicedData(p, rawData)

select(p, rawData) ==
    LET data == slicedData(p, rawData)
    IN IF p.queryOptions.select THEN queryOptionsSelect(data) ELSE data

\* a notification function supplied by the caller
notificationFn(dataOrErr, values, identifier) ==
    [kind |-> "config", message |-> "from function",
     calledWith |-> <<dataOrErr, values, identifier>>]

\* the notification dispatched before the caller's onSuccess runs
onSuccess_NotifiesFirst(p, data) ==
    <<[fn |-> "handleNotification",
       args |-> <<IF p.successNotification.kind = "function"
                  THEN notificationFn(data, notificationValues(p), identifierOf(p))
                  ELSE p.successNotification>>]>> \o
    (IF p.queryOptions.onSuccess
     THEN <<[fn |-> "queryOptions.onSuccess", args |-> <<data>>]>>
     ELSE <<>>)

\* a default success notification supplied as fallback
onSuccess_WithFallback(p, data) ==
    LET notificationConfig ==
            IF p.successNotification.kind = "function"
            THEN notificationFn(data, notificationValues(p), identifierOf(p))
            ELSE p.successNotification
    IN (IF p.queryOptions.onSuccess
        THEN <<[fn |-> "queryOptions.onSuccess", args |-> <<data>>]>>
        ELSE <<>>) \o
       <<[fn |-> "handleNotification",
          args |-> <<notificationConfig,
                     [key |-> Str(identifierOf(p)) \o "-useList-notification",
                      message |-> "Success", type |-> "success"]>>]>>

\* the calls onSuccess makes, in order
onSuccess(p, data) ==
    LET notificationConfig ==
            IF p.successNotification.kind = "function"
            THEN notificationFn(data, notificationValues(p), identifierOf(p))
            ELSE p.successNotification
    IN (IF p.queryOptions.onSuccess
        THEN <<[fn |-> "queryOptions.onSuccess", args |-> <<data>>]>>
        ELSE <<>>) \o
       <<[fn |-> "handleNotification", args |-> <<notificationConfig>>]>>

\* the fallback of the error notification
errorFallback(p, err) ==
    [key |-> Str(identifierOf(p)) \o "-useList-notification",
     message |-> translate("notifications.error",
                           [statusCode |-> err.statusCode],
                           "Error (status code: " \o ToString(err.statusCode) \o ")"),
     description |-> err.message,
     type |-> "error"]

\* the notification left out when errorNotification is false
onError_SkipsFalse(p, err) ==
    <<[fn |-> "checkError", args |-> <<err>>]>> \o
    (IF p.queryOptions.onError
     THEN <<[fn |-> "queryOptions.onError", args |-> <<err>>]>>
     ELSE <<>>) \o
    (IF p.errorNotification.kind = "false"
     THEN <<>>
     ELSE <<[fn |-> "handleNotification",
             args |-> <<IF p.errorNotification.kind = "function"
                        THEN notificationFn(err, notificationValues(p), identifierOf(p))
                        ELSE p.errorNotification,
                        errorFallback(p, err)>>]>>)

\* the failure answered with a getList call of the hook's own
onError_Retries(p, err) ==
    <<[fn |-> "checkError", args |-> <<err>>]>> \o
    (IF p.queryOptions.onError
     THEN <<[fn |-> "queryOptions.onError", args |-> <<err>>]>>
     ELSE <<>>) \o
    <<[fn |-> "handleNotification",
       args |-> <<IF p.errorNotification.kind = "function"
                  THEN notificationFn(err, notificationValues(p), identifierOf(p))
                  ELSE p.errorNotification,
                  errorFallback(p, err)>>],
      queryFn(p, QueryContext(p, 0))>>

\* the key of the fallback built from the resource name
onError_WrongFallback(p, err) ==
    <<[fn |-> "checkError", args |-> <<err>>]>> \o
    (IF p.queryOptions.onError
     THEN <<[fn |-> "queryOptions.onError", args |-> <<err>>]>>
     ELSE <<>>) \o
    <<[fn |-> "handleNotification",
       args |-> <<IF p.errorNotification.kind = "function"
                  THEN notificationFn(err, notificationValues(p), identifierOf(p))
                  ELSE p.errorNotification,
                  [errorFallback(p, err) EXCEPT
                      !.key = Str(resourceName(p)) \o "-useList-notification"]>>]>>

\* the calls onError makes, in order
onError(p, err) ==
    LET notificationConfig ==
            IF p.errorNotification.kind = "function"
            THEN notificationFn(err, notificationValues(p), identifierOf(p))
            ELSE p.errorNotification
    IN <<[fn |-> "checkError", args |-> <<err>>]>> \o
       (IF p.queryOptions.onError
        THEN <<[fn |-> "queryOptions.onError", args |-> <<err>>]>>
        ELSE <<>>) \o
       <<[fn |-> "handleNotification",
          args |-> <<notificationConfig, errorFallback(p, err)>>]>>

\* the observer result of useQuery
queryResponse(p, qs) ==
    [data |-> IF IsDefined(qs.data) THEN Def(select(p, Val(qs.data))) ELSE Undefined,
     error |-> qs.error,
     status |-> qs.status,
     isFetching |-> qs.isFetching,
     isLoading |-> qs.status = "loading",
     isSuccess |-> qs.status = "success",
     isError |-> qs.status = "error"]

\* the overtime driven by isLoading, which is false during a refetch
useLoadingOvertime_IsLoading(p, qs) ==
    [isLoading |-> queryResponse(p, qs).isLoading,
     interval |-> p.overtimeOptions.interval,
     onInterval |-> p.overtimeOptions.onInterval]

\* the argument of useLoadingOvertime
useLoadingOvertime(p, qs) ==
    [isLoading |-> queryResponse(p, qs).isFetching,
     interval |-> p.overtimeOptions.interval,
     onInterval |-> p.overtimeOptions.onInterval]

\* the members of overtime spread into the result instead of nested in it
useList_SpreadOvertime(p, qs, elapsed) ==
    [elapsedTime |-> elapsed] @@ queryResponse(p, qs)

\* the value useList returns
useList(p, qs, elapsed) ==
    [overtime |-> [elapsedTime |-> elapsed]] @@ queryResponse(p, qs)

\* useLoadingOvertime: the elapsed time is kept while loading and undefined after
elapsedTimeAfter(overtime, elapsed) ==
    IF overtime.isLoading THEN elapsed ELSE Undefined

(* ----------------------- inputs of the hook ---------------------------- *)

\* the interval of useLoadingOvertime when the caller gives none
Interval == 1000

\* an interval given by the caller
CallerInterval == 500

Opt(S) == {Undefined} \cup {Def(v) : v \in S}

MetaCurrent == [headers |-> "x-token"]

MetaDeprecated == [fields |-> "id"]

FiltersCurrent == <<[field |-> "status", operator |-> "eq", value |-> "open"]>>

FiltersDeprecated == <<[field |-> "title", operator |-> "contains", value |-> "old"]>>

SortersCurrent == <<[field |-> "id", order |-> "asc"]>>

SortersDeprecated == <<[field |-> "title", order |-> "desc"]>>

Notifications ==
    {[kind |-> "undefined"], [kind |-> "false"], [kind |-> "function"],
     [kind |-> "config", message |-> "from props", type |-> "success"]}

Paginations ==
    Opt([current : Opt(1..MaxCurrent), pageSize : Opt(1..MaxPageSize)])

\* the tutorial's useList({config: {pagination: {current: 2}}, resource: "products"})
TutorialPagination == [current |-> Def(2), pageSize |-> Undefined]

NoQueryOptions ==
    [enabled |-> Undefined, select |-> FALSE, onSuccess |-> FALSE, onError |-> FALSE]

NoConfig ==
    [pagination |-> Undefined, hasPagination |-> Undefined, sort |-> Undefined, filters |-> Undefined]

DefaultProps ==
    [resource |-> Def("posts"),
     config |-> Undefined,
     filters |-> Undefined,
     hasPagination |-> Undefined,
     pagination |-> Undefined,
     sorters |-> Undefined,
     queryOptions |-> NoQueryOptions,
     successNotification |-> [kind |-> "undefined"],
     errorNotification |-> [kind |-> "undefined"],
     meta |-> Undefined,
     metaData |-> Undefined,
     liveMode |-> Undefined,
     onLiveEvent |-> Undefined,
     liveParams |-> Undefined,
     dataProviderName |-> Undefined,
     overtimeOptions |-> [interval |-> Undefined, onInterval |-> FALSE]]

\* every combination of the deprecated and the current option of each pair
OptionProps ==
    {[DefaultProps EXCEPT !.meta = m, !.metaData = md,
                          !.filters = f, !.sorters = s, !.hasPagination = h,
                          !.config = Def([NoConfig EXCEPT !.filters = cf, !.sort = cs,
                                                          !.hasPagination = ch])] :
        m \in Opt({MetaCurrent}), md \in Opt({MetaDeprecated}),
        f \in Opt({FiltersCurrent}), cf \in Opt({FiltersDeprecated}),
        s \in Opt({SortersCurrent}), cs \in Opt({SortersDeprecated}),
        h \in Opt(BOOLEAN), ch \in Opt(BOOLEAN)}

\* pagination, pagination flag and a select of the caller
PageProps ==
    {[DefaultProps EXCEPT !.hasPagination = h, !.pagination = pg,
                          !.config = c, !.queryOptions.select = sel] :
        h \in Opt(BOOLEAN), pg \in Paginations,
        c \in {Undefined, Def([NoConfig EXCEPT !.pagination = Def(TutorialPagination)])},
        sel \in BOOLEAN}

\* notifications, callbacks of the caller and the enabled option
CallbackProps ==
    {[DefaultProps EXCEPT !.successNotification = sn, !.errorNotification = en,
                          !.queryOptions.onSuccess = os, !.queryOptions.onError = oe,
                          !.queryOptions.enabled = e] :
        sn \in Notifications, en \in Notifications,
        os \in BOOLEAN, oe \in BOOLEAN, e \in Opt(BOOLEAN)}

\* the live options, with a registered, an unregistered and no resource
LiveProps ==
    {[DefaultProps EXCEPT !.resource = r, !.liveMode = lm, !.onLiveEvent = cb,
                          !.liveParams = lp, !.queryOptions.enabled = e,
                          !.dataProviderName = dp] :
        r \in Opt({"posts", "categories"}), lm \in Opt({"auto"}),
        cb \in Opt({"onLiveEvent"}),
        lp \in Opt({[ids |-> <<"1">>, pagination |-> [current |-> 5, pageSize |-> 50]],
                     [subscriptionType |-> "custom"]}),
        e \in Opt(BOOLEAN), dp \in Opt({"second"})}

\* notification functions under every pagination flag
NotifiedProps ==
    {[DefaultProps EXCEPT !.hasPagination = h,
                          !.config = Def([NoConfig EXCEPT !.hasPagination = ch]),
                          !.successNotification = [kind |-> "function"],
                          !.errorNotification = [kind |-> "function"]] :
        h \in Opt(BOOLEAN), ch \in Opt(BOOLEAN)}

\* the overtime options of the caller
OvertimeProps ==
    {[DefaultProps EXCEPT !.overtimeOptions = [interval |-> i, onInterval |-> cb]] :
        i \in Opt({CallerInterval}), cb \in BOOLEAN}

\* props between which a component re-renders: page, page size (one item or
\* two), pagination flag, filters and sorters under either name
CacheProps ==
    {[DefaultProps EXCEPT !.hasPagination = h,
                          !.pagination = Def([current |-> Def(c), pageSize |-> Def(ps)]),
                          !.filters = f, !.sorters = so,
                          !.config = Def([NoConfig EXCEPT !.sort = cs])] :
        h \in {Undefined, Def(FALSE)}, c \in 1..MaxCurrent, ps \in {1, 2},
        f \in Opt({FiltersCurrent}), so \in Opt({SortersCurrent}),
        cs \in Opt({SortersCurrent})}

\* the same filters, sorters, pagination and pagination flag supplied under
\* the current name, the deprecated name, both or neither
KeyProps ==
    {[DefaultProps EXCEPT !.filters = f, !.sorters = so, !.hasPagination = h,
                          !.pagination = pg,
                          !.config = Def([pagination |-> cpg, hasPagination |-> ch,
                                          sort |-> cs, filters |-> cf])] :
        f \in Opt({FiltersCurrent}), cf \in Opt({FiltersCurrent}),
        so \in Opt({SortersCurrent}), cs \in Opt({SortersCurrent}),
        h \in {Undefined, Def(FALSE)}, ch \in {Undefined, Def(FALSE)},
        pg \in Opt({[current |-> Def(2), pageSize |-> Def(1)]}),
        cpg \in Opt({[current |-> Def(2), pageSize |-> Def(1)]})}

PropsSet ==
    OptionProps \cup PageProps \cup CallbackProps \cup LiveProps \cup NotifiedProps \cup
    OvertimeProps

\* responses of the data provider: the whole list of n records, or a page of
\* MaxItems records out of a longer list
Responses ==
    {[data |-> [i \in 1..n |-> [id |-> i]], total |-> n] : n \in 0..MaxItems} \cup
    {[data |-> [i \in 1..MaxItems |-> [id |-> i]], total |-> MaxItems + 20]}

\* rejections of the data provider
Errors ==
    {[message |-> "Not Found", statusCode |-> 404],
     [message |-> "Internal Server Error", statusCode |-> 500]}

(* --------------------------- the lifecycle ----------------------------- *)

\* a query of the query library that has not fetched yet; fetchedWith keeps
\* the getList arguments that brought the data
NewQuery ==
    [status |-> "loading", data |-> Undefined, error |-> Undefined, isFetching |-> FALSE,
     fetchedWith |-> Undefined]

RECURSIVE CallsAfterGetList(_)
\* the calls logged after the last getList call
CallsAfterGetList(log) ==
    IF log = <<>> \/ log[Len(log)].fn = "getList"
    THEN <<>>
    ELSE Append(CallsAfterGetList(SubSeq(log, 1, Len(log) - 1)), log[Len(log)])

HookInit(initialProps) ==
    /\ props \in initialProps
    /\ mounted = FALSE
    /\ subscription = Undefined
    /\ queryState = NewQuery
    /\ elapsedTime = Undefined
    /\ calls = <<>>
    /\ fetches = 0
    /\ failures = 0
    /\ cache = EmptyObject
    /\ renders = 0

\* DashboardPage before its data arrives: useState([]), nothing dragged
KanbanInit ==
    /\ orders = <<>>
    /\ dragging = Undefined
    /\ dropResult = Undefined

Init == HookInit(PropsSet) /\ KanbanInit

\* the component renders: the body of useList registers the subscription
Render ==
    /\ ~mounted
    /\ mounted' = TRUE
    /\ subscription' = Def(useResourceSubscription(props))
    /\ UNCHANGED <<props, queryState, elapsedTime, calls, fetches, failures, cache, renders, kanbanVars>>

\* the query library starts a fetch of an enabled query: it runs the query function
QueryFn ==
    /\ mounted
    /\ queryEnabled(props)
    /\ ~queryState.isFetching
    /\ fetches < MaxFetches
    /\ calls' = Append(calls, queryFn(props, QueryContext(props, fetches + 1)))
    /\ fetches' = fetches + 1
    /\ queryState' = [queryState EXCEPT !.isFetching = TRUE]
    /\ UNCHANGED <<props, mounted, subscription, elapsedTime, failures, cache, renders, kanbanVars>>

\* getList rejected and the query library retries: it runs the query function again
Retry ==
    /\ queryState.isFetching
    /\ fetches < MaxFetches
    /\ calls' = Append(calls, queryFn(props, QueryContext(props, fetches + 1)))
    /\ fetches' = fetches + 1
    /\ UNCHANGED <<props, mounted, subscription, queryState, elapsedTime, failures, cache, renders, kanbanVars>>

\* useLoadingOvertime: the elapsed time of the fetch in flight
Tick ==
    LET overtime == useLoadingOvertime(props, queryState)
        interval == Nullish(overtime.interval, Interval)
        elapsed == Nullish(elapsedTime, 0) + interval
    IN /\ mounted
       /\ overtime.isLoading
       /\ elapsed <= MaxTicks * interval
       /\ elapsedTime' = Def(elapsed)
       /\ calls' = calls \o (IF overtime.onInterval
                              THEN <<[fn |-> "overtimeOptions.onInterval", args |-> <<elapsed>>]>>
                              ELSE <<>>)
       /\ UNCHANGED <<props, mounted, subscription, queryState, fetches, failures, cache, renders, kanbanVars>>

\* getList resolved: the query library stores the response and calls onSuccess
\* with the selected data
Success(response) ==
    /\ queryState.isFetching
    /\ queryState' = [status |-> "success", data |-> Def(response), error |-> Undefined,
                      isFetching |-> FALSE,
                      fetchedWith |-> Def(calls[Len(calls) - Len(CallsAfterGetList(calls))].args)]
    /\ calls' = calls \o onSuccess(props, select(props, response))
    /\ elapsedTime' = elapsedTimeAfter(useLoadingOvertime(props, queryState'), elapsedTime)
    /\ UNCHANGED <<props, mounted, subscription, fetches, failures, cache, renders, kanbanVars>>

\* getList rejected for good: the query library reports the failure to onError
Failure(err) ==
    /\ queryState.isFetching
    /\ queryState' = [queryState EXCEPT !.status = "error", !.error = Def(err),
                                        !.isFetching = FALSE]
    /\ calls' = calls \o onError(props, err)
    /\ failures' = failures + 1
    /\ elapsedTime' = elapsedTimeAfter(useLoadingOvertime(props, queryState'), elapsedTime)
    /\ UNCHANGED <<props, mounted, subscription, fetches, cache, renders, kanbanVars>>

Next ==
    \/ Render
    \/ QueryFn
    \/ Retry
    \/ Tick
    \/ \E response \in Responses : Success(response)
    \/ \E err \in Errors : Failure(err)

Spec == Init /\ [][Next]_vars

\* the options in which two props differ
ChangedOptions(p, q) == {o \in DOMAIN p : p[o] # q[o]}

\* the component re-renders with one option changed while no fetch is in
\* flight: the subscription is registered anew and the hook observes the query
\* of the new key, the cached one if the cache has it
Rerender(newProps) ==
    LET oldKey == useQueryKey(props)
        newKey == useQueryKey(newProps)
    IN /\ mounted
       /\ ~queryState.isFetching
       /\ renders < MaxRenders
       /\ Cardinality(ChangedOptions(props, newProps)) = 1
       /\ props' = newProps
       /\ renders' = renders + 1
       /\ subscription' = Def(useResourceSubscription(newProps))
       /\ IF newKey = oldKey
          THEN UNCHANGED <<queryState, cache>>
          ELSE /\ cache' = [k \in DOMAIN cache \cup {oldKey} |->
                               IF k = oldKey THEN queryState ELSE cache[k]]
               /\ queryState' = IF newKey \in DOMAIN cache THEN cache[newKey] ELSE NewQuery
       /\ UNCHANGED <<mounted, elapsedTime, calls, fetches, failures, kanbanVars>>

\* the responses with every record the bound allows
FullResponses == {response \in Responses : Len(response.data) = MaxItems}

\* re-renders between fetches that succeed
CacheNext ==
    \/ Render
    \/ \E newProps \in CacheProps : Rerender(newProps)
    \/ QueryFn
    \/ \E response \in FullResponses : Success(response)

\* a hook of props that differ in the options of the query key
InitCache == HookInit(CacheProps) /\ KanbanInit

SpecCache == InitCache /\ [][CacheNext]_vars

(* ------------------------ the kanban tutorial -------------------------- *)

ORDERS == "Orders"

IN_PROGRESS == "In Progress"

DELIVERED == "Delivered"

RETURNED == "Returned"

ColumnTypes == {ORDERS, IN_PROGRESS, DELIVERED, RETURNED}

\* names of the products of the API: two products may have the same name
ProductNames == {"Chair", "Table"}

\* the product lists useList may return to useData
Products ==
    UNION {[1..n -> ProductNames] : n \in 1..MaxOrders}

\* useData: every product becomes an order of the column Orders
useData(names) ==
    [i \in 1..Len(names) |-> [id |-> i, name |-> names[i], column |-> ORDERS]]

\* the cards columnItem renders in a column
columnItem(columnName, ordersState) ==
    LET shown == SelectSeq(ordersState, LAMBDA order : order.column = columnName)
    IN [i \in 1..Len(shown) |-> [key |-> shown[i].id, name |-> shown[i].name, index |-> i - 1]]

\* the state setOrders computes from the previous state
orderColumnChange(CurrentOrder, columnName, prevState) ==
    [i \in 1..Len(prevState) |->
        [prevState[i] EXCEPT !.column = IF prevState[i].name = CurrentOrder.name
                                        THEN columnName
                                        ELSE prevState[i].column]]

\* the case of In Progress copied from the case of Orders
end_CopiedCase(order, result, prevState) ==
    IF IsDefined(result)
    THEN CASE Val(result).name = ORDERS -> orderColumnChange(order, ORDERS, prevState)
           [] Val(result).name = IN_PROGRESS -> orderColumnChange(order, ORDERS, prevState)
           [] Val(result).name = DELIVERED -> orderColumnChange(order, DELIVERED, prevState)
           [] Val(result).name = RETURNED -> orderColumnChange(order, RETURNED, prevState)
           [] OTHER -> prevState
    ELSE prevState

\* the end callback of useDrag: the orders state it leaves
end(order, result, prevState) ==
    IF IsDefined(result)
    THEN CASE Val(result).name = ORDERS -> orderColumnChange(order, ORDERS, prevState)
           [] Val(result).name = IN_PROGRESS -> orderColumnChange(order, IN_PROGRESS, prevState)
           [] Val(result).name = DELIVERED -> orderColumnChange(order, DELIVERED, prevState)
           [] Val(result).name = RETURNED -> orderColumnChange(order, RETURNED, prevState)
           [] OTHER -> prevState
    ELSE prevState

\* the effect of DashboardPage: the data of useData replaces the orders
SetOrders(names) ==
    /\ dragging = Undefined
    /\ orders' = useData(names)
    /\ UNCHANGED <<dragging, dropResult, hookVars>>

\* a card is picked up: the drag item is {name}; the id tells which card it is
BeginDrag(i) ==
    /\ dragging = Undefined
    /\ dragging' = Def([id |-> orders[i].id, item |-> [name |-> orders[i].name]])
    /\ dropResult' = Undefined
    /\ UNCHANGED <<orders, hookVars>>

\* the card is released over a column: the drop callback of useDrop returns {name}
Drop(name) ==
    /\ IsDefined(dragging)
    /\ dropResult = Undefined
    /\ dropResult' = Def([name |-> name])
    /\ UNCHANGED <<orders, dragging, hookVars>>

\* the drag ends, over a column or outside of every column
EndDrag ==
    /\ IsDefined(dragging)
    /\ orders' = end(Val(dragging).item, dropResult, orders)
    /\ dragging' = Undefined
    /\ dropResult' = Undefined
    /\ UNCHANGED hookVars

KanbanNext ==
    \/ \E names \in Products : SetOrders(names)
    \/ \E i \in 1..Len(orders) : BeginDrag(i)
    \/ \E name \in ColumnTypes : Drop(name)
    \/ EndDrag

\* the board next to a hook of default props
InitKanban == HookInit({DefaultProps}) /\ KanbanInit

SpecKanban == InitKanban /\ [][KanbanNext]_vars

(* ------------------------------ claims --------------------------------- *)

CallsOf(log, fn) == SelectSeq(log, LAMBDA c : c.fn = fn)

\* the calls a step appended to the log
NewCalls == SubSeq(calls', Len(calls) + 1, Len(calls'))

\* the option a caller means when the pair (current, deprecated) is given
Effective(current, deprecated) == IF current # Undefined THEN current ELSE deprecated

\* the elements of arr at the zero-based indices lo .. hi-1 that exist, in order
ElementsAt(arr, lo, hi) ==
    LET idx == {i \in 0..(Len(arr) - 1) : lo <= i /\ i < hi}
    IN [k \in 1..Cardinality(idx) |-> arr[lo + k]]

\* the page of the fetched array the effective pagination names
PageOf(raw) ==
    LET pg == prefferedPagination(props)
    IN ElementsAt(raw, (pg.current - 1) * pg.pageSize, pg.current * pg.pageSize)

\* C1, as stated: in every getList call the meta, filters, sorters and
\* hasPagination arguments are the effective values of their option pairs,
\* the current option when it is defined and the deprecated one otherwise.
C1_AsStated ==
    \A i \in 1..Len(CallsOf(calls, "getList")) :
        LET a == CallsOf(calls, "getList")[i].args
        IN /\ Def(a.meta) = Effective(props.meta, props.metaData)
           /\ a.filters = Effective(props.filters, Field(props.config, "filters"))
           /\ a.sorters = Effective(props.sorters, Field(props.config, "sort"))
           /\ Def(a.hasPagination) =
                  Effective(props.hasPagination, Field(props.config, "hasPagination"))

\* C1, amended: in every getList call filters and sorters are the effective
\* values of their pairs unchanged; meta is getMeta of the effective meta
\* extended with the query context; hasPagination tells whether the mode that
\* handlePaginationParams derives from the effective hasPagination is "server".
C1_EffectiveOptions ==
    \A i \in 1..Len(CallsOf(calls, "getList")) :
        LET a == CallsOf(calls, "getList")[i].args
        IN /\ a.filters = Effective(props.filters, Field(props.config, "filters"))
           /\ a.sorters = Effective(props.sorters, Field(props.config, "sort"))
           /\ a.meta = [queryContext |-> a.meta.queryContext] @@
                        getMeta(resourceOf(props), Effective(props.meta, props.metaData))
           /\ a.hasPagination =
                  (handlePaginationParams(
                       props.pagination, Field(props.config, "pagination"),
                       Effective(props.hasPagination,
                                 Field(props.config, "hasPagination"))).mode = "server")

\* a getList call made with both filters given and only the deprecated hasPagination
C1_Witness ==
    /\ Len(CallsOf(calls, "getList")) > 0
    /\ IsDefined(props.filters)
    /\ IsDefined(Field(props.config, "filters"))
    /\ IsDefined(props.metaData)
    /\ props.hasPagination = Undefined
    /\ Field(props.config, "hasPagination") = Def(FALSE)

\* the item array useList returns against the fetched array
ReturnsPage ==
    IsDefined(queryState.data) =>
        LET raw == Val(queryState.data).data
            returned == Val(useList(props, queryState, elapsedTime).data).data
        IN IF prefferedPagination(props).mode = "client"
           THEN returned = PageOf(raw)
           ELSE returned = raw

\* C2, as stated: in client mode the returned item array is the fetched
\* array's elements at indices (current-1)*pageSize .. current*pageSize-1 in
\* order; in server mode it is the fetched array.
C2_AsStated == ReturnsPage

\* C2, amended: the same, when the caller supplies no queryOptions.select.
C2_ClientSlice == ~props.queryOptions.select => ReturnsPage

\* client mode, three items fetched, page 2 of size 2: the short last page
C2_Witness ==
    /\ IsDefined(queryState.data)
    /\ ~props.queryOptions.select
    /\ prefferedPagination(props).mode = "client"
    /\ prefferedPagination(props).current = 2
    /\ prefferedPagination(props).pageSize = 2
    /\ Len(Val(queryState.data).data) = 3
    /\ Len(Val(useList(props, queryState, elapsedTime).data).data) = 1

\* C3: every failure the query library reports is forwarded once to
\* checkError with the error and once to handleNotification, whatever
\* queryOptions.onError and errorNotification are.
C3_ErrorForwarded ==
    LET checked == CallsOf(calls, "checkError")
        notified == SelectSeq(CallsOf(calls, "handleNotification"),
                              LAMBDA c : Len(c.args) = 2)
    IN /\ Len(checked) = failures
       /\ Len(notified) = failures
       /\ (queryState.status = "error" /\ ~queryState.isFetching) =>
              /\ checked[Len(checked)].args = <<Val(queryState.error)>>
              /\ calls[Len(calls)] = notified[Len(notified)]
              /\ calls[Len(calls)].args[2].description = Val(queryState.error).message

\* two failures, without queryOptions.onError and with errorNotification false
C3_Witness ==
    /\ failures = 2
    /\ ~props.queryOptions.onError
    /\ props.errorNotification.kind = "false"

\* C4: the step that handles a failure makes no getList call and leaves the
\* props, the query key and the subscription as they are; a getList call is
\* made only by a run of the query function.
C4_NoRecovery ==
    [][/\ failures' # failures =>
            /\ CallsOf(NewCalls, "getList") = <<>>
            /\ props' = props
            /\ useQueryKey(props') = useQueryKey(props)
            /\ subscription' = subscription
       /\ CallsOf(calls', "getList") # CallsOf(calls, "getList") =>
            /\ fetches' = fetches + 1
            /\ Len(CallsOf(calls', "getList")) = Len(CallsOf(calls, "getList")) + 1]_vars

\* a failure was handled and the one getList call before it is the only one
C4_Witness ==
    /\ failures = 1
    /\ queryState.status = "error"
    /\ Len(CallsOf(calls, "getList")) = 1

C6_GetListArguments ==
    \A i \in 1..Len(CallsOf(calls, "getList")) :
        LET a == CallsOf(calls, "getList")[i].args
            combined == getMeta(resourceOf(props), Effective(props.meta, props.metaData))
        IN /\ DOMAIN a = {"resource", "pagination", "hasPagination", "filters",
                          "sort", "sorters", "meta", "metaData"}
           /\ a.resource = IF IsDefined(resourceOf(props))
                           THEN Val(resourceOf(props)).name
                           ELSE ""
           /\ a.pagination =
                  handlePaginationParams(
                      props.pagination, Field(props.config, "pagination"),
                      Effective(props.hasPagination, Field(props.config, "hasPagination")))
           /\ a.filters = Effective(props.filters, Field(props.config, "filters"))
           /\ a.sorters = Effective(props.sorters, Field(props.config, "sort"))
           /\ a.sort = a.sorters
           /\ a.meta = a.metaData
           /\ DOMAIN a.meta = DOMAIN combined \cup {"queryContext"}
           /\ \A k \in DOMAIN combined \ {"queryContext"} : a.meta[k] = combined[k]
           /\ DOMAIN a.meta.queryContext = {"queryKey", "pageParam", "signal"}
           /\ a.meta.queryContext.queryKey = useQueryKey(props)

\* two getList calls made without a resource, by a query enabled by the caller
C6_Witness ==
    /\ Len(CallsOf(calls, "getList")) = 2
    /\ CallsOf(calls, "getList")[2].args.resource = ""
    /\ CallsOf(calls, "getList")[2].args.meta.queryContext.signal = 2

\* C7: the step that reports a success calls handleNotification once, with
\* the one argument successNotification, or with the result of
\* successNotification(data, notificationValues, identifier) when it is a
\* function, and with no fallback notification.
C7_SuccessNotification ==
    [][(queryState.isFetching /\ ~queryState'.isFetching /\ queryState'.status = "success") =>
          LET notified == CallsOf(NewCalls, "handleNotification")
              data == Val(useList(props', queryState', elapsedTime').data)
          IN /\ Len(notified) = 1
             /\ notified[1].args =
                    <<IF props.successNotification.kind = "function"
                      THEN notificationFn(data, notificationValues(props), identifierOf(props))
                      ELSE props.successNotification>>]_vars

\* a success reported with successNotification a function
C7_Witness ==
    /\ queryState.status = "success"
    /\ props.successNotification.kind = "function"
    /\ Len(CallsOf(calls, "handleNotification")) = 1
    /\ calls[Len(calls)].args[1].calledWith[1] = Val(queryState.data)

\* C8: the step that reports a failure err dispatches the caller's
\* errorNotification (or its result for (err, notificationValues, identifier))
\* together with the fallback of key "<identifier>-useList-notification",
\* type "error", description err.message and the message translated from
\* "notifications.error" with err.statusCode and the default text
\* "Error (status code: <statusCode>)".
C8_ErrorFallback ==
    [][failures' # failures =>
          LET notified == CallsOf(NewCalls, "handleNotification")
              err == Val(queryState'.error)
          IN /\ Len(notified) = 1
             /\ Len(notified[1].args) = 2
             /\ notified[1].args[1] =
                    IF props.errorNotification.kind = "function"
                    THEN notificationFn(err, notificationValues(props), identifierOf(props))
                    ELSE props.errorNotification
             /\ notified[1].args[2] =
                    [key |-> Str(identifierOf(props)) \o "-useList-notification",
                     type |-> "error",
                     description |-> err.message,
                     message |-> [key |-> "notifications.error",
                                  options |-> [statusCode |-> err.statusCode],
                                  defaultMessage |->
                                      IF err.statusCode = 404
                                      THEN "Error (status code: 404)"
                                      ELSE "Error (status code: 500)"]]]_vars

\* a 404 reported for the resource "posts" of identifier "blog-posts"
C8_Witness ==
    /\ queryState.status = "error"
    /\ ~queryState.isFetching
    /\ Val(queryState.error).statusCode = 404
    /\ props.errorNotification.kind = "function"
    /\ calls[Len(calls)].args[2].key = "blog-posts-useList-notification"

\* C9: the value useList returns has every field of the query result with the
\* value it has there, the data being the {data, total} envelope, and one field
\* more, overtime, whose only member is elapsedTime.
C9_ReturnShape ==
    LET returned == useList(props, queryState, elapsedTime)
        response == queryResponse(props, queryState)
    IN /\ DOMAIN returned = DOMAIN response \cup {"overtime"}
       /\ "overtime" \notin DOMAIN response
       /\ \A f \in DOMAIN response : returned[f] = response[f]
       /\ returned.isFetching = queryState.isFetching
       /\ returned.status = queryState.status
       /\ returned.error = queryState.error
       /\ IsDefined(returned.data) <=> IsDefined(queryState.data)
       /\ IsDefined(returned.data) => DOMAIN Val(returned.data) = {"data", "total"}
       /\ DOMAIN returned.overtime = {"elapsedTime"}
       /\ returned.overtime.elapsedTime = elapsedTime

\* a refetch in flight for a second with the data of the first fetch at hand
C9_Witness ==
    /\ queryState.isFetching
    /\ IsDefined(queryState.data)
    /\ useList(props, queryState, elapsedTime).overtime.elapsedTime = Def(Interval)

\* C10: a rendered useList holds one subscription whose channel is
\* "resources/<resource name>", whose resource is the resource identifier,
\* whose types are ["*"], and whose liveMode and onLiveEvent are the caller's.
C10_Subscription ==
    mounted =>
        /\ Cardinality(subscription) = 1
        /\ Val(subscription).channel =
               "resources/" \o (IF IsDefined(resourceOf(props))
                                THEN Val(resourceOf(props)).name
                                ELSE "undefined")
        /\ Val(subscription).resource = identifierOf(props)
        /\ Val(subscription).types = <<"*">>
        /\ Val(subscription).liveMode = props.liveMode
        /\ Val(subscription).onLiveEvent = props.onLiveEvent

\* the subscription of the resource "posts" of identifier "blog-posts"
C10_Witness ==
    /\ mounted
    /\ Val(subscription).channel = "resources/posts"
    /\ Val(subscription).resource = Def("blog-posts")
    /\ Val(subscription).liveMode = Def("auto")
    /\ Val(subscription).onLiveEvent = Def("onLiveEvent")

\* C11: the hasPagination of the getList arguments, of the query key, of the
\* subscription params (when liveParams does not override it) and of the
\* notification values is one value, true exactly when the mode is "server".
C11_HasPaginationAgrees ==
    LET server == prefferedPagination(props).mode = "server"
    IN /\ \A i \in 1..Len(CallsOf(calls, "getList")) :
             LET a == CallsOf(calls, "getList")[i].args
             IN /\ a.hasPagination = server
                /\ a.meta.queryContext.queryKey[4].hasPagination = server
       /\ (mounted /\ "hasPagination" \notin DOMAIN Spread(props.liveParams)) =>
             Val(subscription).params.hasPagination = server
       /\ \A i \in 1..Len(CallsOf(calls, "handleNotification")) :
             LET config == CallsOf(calls, "handleNotification")[i].args[1]
             IN "calledWith" \in DOMAIN config =>
                    config.calledWith[2].hasPagination = server

\* client mode by the deprecated flag alone, a fetch made and its success notified
C11_Witness ==
    /\ props.hasPagination = Undefined
    /\ prefferedPagination(props).mode = "client"
    /\ queryState.status = "success"
    /\ ~CallsOf(calls, "getList")[1].args.hasPagination
    /\ ~Val(subscription).params.hasPagination
    /\ ~calls[Len(calls)].args[1].calledWith[2].hasPagination

\* C12: without a pagination prop, the pagination of every getList call has
\* the current page of the deprecated config.pagination.
C12_ConfigPagination ==
    (props.pagination = Undefined
     /\ IsDefined(Field(Field(props.config, "pagination"), "current"))) =>
        \A i \in 1..Len(CallsOf(calls, "getList")) :
            CallsOf(calls, "getList")[i].args.pagination.current =
                Val(Val(Val(props.config).pagination).current)

\* the tutorial's call: page 2 asked through config.pagination alone
C12_Witness ==
    /\ props.pagination = Undefined
    /\ Field(props.config, "pagination") = Def(TutorialPagination)
    /\ Len(CallsOf(calls, "getList")) > 0
    /\ CallsOf(calls, "getList")[1].args.pagination.current = 2

\* C13: elapsedTime is undefined whenever no fetch is in flight; it grows only
\* while the query is fetching, by the caller's interval (or the default), and
\* each growth is reported to the caller's onInterval.
C13_Overtime ==
    /\ [](~queryState.isFetching => elapsedTime = Undefined)
    /\ [][elapsedTime' # elapsedTime =>
             \/ /\ elapsedTime' = Undefined
                /\ ~queryState'.isFetching
             \/ /\ queryState.isFetching /\ queryState'.isFetching
                /\ elapsedTime' =
                       Def(Nullish(elapsedTime, 0) +
                           Nullish(props.overtimeOptions.interval, Interval))
                /\ CallsOf(NewCalls, "overtimeOptions.onInterval") =
                       IF props.overtimeOptions.onInterval
                       THEN <<[fn |-> "overtimeOptions.onInterval",
                               args |-> <<Val(elapsedTime')>>]>>
                       ELSE <<>>]_vars

\* a refetch that took two of the caller's intervals has completed
C13_Witness ==
    /\ props.overtimeOptions.interval = Def(CallerInterval)
    /\ Len(CallsOf(calls, "overtimeOptions.onInterval")) = 2
    /\ calls[2].args = <<CallerInterval>>
    /\ queryState.status = "success"
    /\ ~queryState.isFetching
    /\ elapsedTime = Undefined

\* the order a drag picked up, in a state of the orders
DraggedIn(ordersState) ==
    CHOOSE order \in {ordersState[i] : i \in 1..Len(ordersState)} :
        order.id = Val(dragging).id

\* C14: when a drag ends with a drop result naming a column, the dragged order
\* gets that column: its card is rendered in that column and in no other.
C14_DropMovesCard ==
    [][(IsDefined(dragging) /\ dragging' = Undefined /\ IsDefined(dropResult)) =>
          LET name == Val(dropResult).name
              id == Val(dragging).id
          IN /\ DraggedIn(orders').column = name
             /\ \A c \in ColumnTypes :
                   (\E i \in 1..Len(columnItem(c, orders')) :
                        columnItem(c, orders')[i].key = id) <=> c = name]_vars

\* a card has been dropped on Delivered and another on In Progress
C14_Witness ==
    /\ dragging = Undefined
    /\ Len(columnItem(DELIVERED, orders)) = 1
    /\ Len(columnItem(IN_PROGRESS, orders)) = 1

\* C15: when a drag ends, every order but the dragged one keeps its column.
C15_OthersKeepColumn ==
    [][(IsDefined(dragging) /\ dragging' = Undefined) =>
          \A i \in 1..Len(orders) :
              orders[i].id # Val(dragging).id => orders'[i].column = orders[i].column]_vars

\* the names of the functions a step called, in order
NewCallNames == [i \in 1..Len(NewCalls) |-> NewCalls[i].fn]

\* C16: a reported success runs queryOptions.onSuccess(data), when the caller
\* supplied it, and then dispatches the notification; a reported failure runs
\* checkError(err), then queryOptions.onError(err), when the caller supplied
\* it, and then dispatches the notification.
C16_CallbackOrder ==
    [][/\ (queryState.isFetching /\ ~queryState'.isFetching /\ queryState'.status = "success") =>
            /\ NewCallNames = IF props.queryOptions.onSuccess
                              THEN <<"queryOptions.onSuccess", "handleNotification">>
                              ELSE <<"handleNotification">>
            /\ NewCalls[1].fn = "queryOptions.onSuccess" =>
                   NewCalls[1].args =
                       <<Val(useList(props', queryState', elapsedTime').data)>>
       /\ failures' # failures =>
            /\ NewCallNames = IF props.queryOptions.onError
                              THEN <<"checkError", "queryOptions.onError", "handleNotification">>
                              ELSE <<"checkError", "handleNotification">>
            /\ NewCalls[1].args = <<Val(queryState'.error)>>
            /\ NewCalls[2].fn = "queryOptions.onError" =>
                   NewCalls[2].args = <<Val(queryState'.error)>>]_vars

\* a failure and then a success, with both callbacks of the caller run
C16_Witness ==
    /\ props.queryOptions.onError
    /\ props.queryOptions.onSuccess
    /\ queryState.status = "success"
    /\ Len(calls) = 7
    /\ calls[3].fn = "queryOptions.onError"
    /\ calls[6].fn = "queryOptions.onSuccess"

\* the effective page, page size, filters and sorters of props
EffectiveRequest(p) ==
    [current |-> prefferedPagination(p).current,
     pageSize |-> prefferedPagination(p).pageSize,
     filters |-> Effective(p.filters, Field(p.config, "filters")),
     sorters |-> Effective(p.sorters, Field(p.config, "sort"))]

\* C17: under server pagination, props of one resource, data provider and meta
\* that differ in the effective page, page size, filters or sorters have
\* different query keys (compared for the props of every mount), and the data
\* the hook shows was fetched with the effective pagination, filters and
\* sorters of its present props, never with those of other props.
C17_ServerKeys ==
    /\ ~mounted =>
          \A q \in CacheProps :
              (/\ isServerPagination(props) /\ isServerPagination(q)
               /\ q.resource = props.resource
               /\ q.dataProviderName = props.dataProviderName
               /\ Effective(q.meta, q.metaData) = Effective(props.meta, props.metaData)
               /\ EffectiveRequest(q) # EffectiveRequest(props)) =>
                  useQueryKey(q) # useQueryKey(props)
    /\ (isServerPagination(props) /\ IsDefined(queryState.data)) =>
          /\ Val(queryState.fetchedWith).pagination = prefferedPagination(props)
          /\ Val(queryState.fetchedWith).filters = EffectiveRequest(props).filters
          /\ Val(queryState.fetchedWith).sorters = EffectiveRequest(props).sorters

\* page 1 was fetched and cached, the props changed to page 2 and page 2 was fetched
C17_Witness ==
    /\ isServerPagination(props)
    /\ renders = 1
    /\ IsDefined(queryState.data)
    /\ Val(queryState.fetchedWith).pagination.current = 2
    /\ \E k \in DOMAIN cache :
          /\ IsDefined(cache[k].data)
          /\ Val(cache[k].fetchedWith).pagination.current = 1
          /\ Val(cache[k].fetchedWith).filters = prefferedFilters(props)

DefaultLiveParams(p) ==
    [meta |-> getMeta(resourceOf(p), Effective(p.meta, p.metaData)),
     metaData |-> getMeta(resourceOf(p), Effective(p.meta, p.metaData)),
     pagination |-> prefferedPagination(p),
     hasPagination |-> prefferedPagination(p).mode = "server",
     sort |-> EffectiveRequest(p).sorters,
     sorters |-> EffectiveRequest(p).sorters,
     filters |-> EffectiveRequest(p).filters,
     subscriptionType |-> "useList"]

\* C19: the subscription params hold, under every key of liveParams, the
\* caller's value, and under every other key the default: the combined meta as
\* meta and metaData, the effective pagination, hasPagination, the effective
\* sorters as sort and sorters, the effective filters, subscriptionType "useList".
C19_LiveParams ==
    mounted =>
        LET params == Val(subscription).params
            live == Spread(props.liveParams)
        IN /\ DOMAIN params = DOMAIN DefaultLiveParams(props) \cup DOMAIN live
           /\ \A k \in DOMAIN live : params[k] = live[k]
           /\ \A k \in DOMAIN params \ DOMAIN live : params[k] = DefaultLiveParams(props)[k]

\* liveParams replaced the subscriptionType; the other params are the defaults
C19_Witness ==
    /\ mounted
    /\ props.liveParams = Def([subscriptionType |-> "custom"])
    /\ Val(subscription).params.subscriptionType = "custom"
    /\ Val(subscription).params.pagination = prefferedPagination(props)
    /\ Val(subscription).params.hasPagination

\* queryOptions.enabled when defined, else whether the resource has a name
ExpectedEnabled(p) ==
    IF p.queryOptions.enabled # Undefined
    THEN p.queryOptions.enabled = Def(TRUE)
    ELSE /\ resourceOf(p) # Undefined
         /\ Val(resourceOf(p)).name # ""

\* C20: a mounted hook with no fetch in flight can run its query function
\* exactly when queryOptions.enabled is true or, with enabled undefined, the
\* resource has a non-empty name; getList was called only when so, and with
\* enabled undefined never for the resource name "".
C20_Enabled ==
    /\ (mounted /\ ~queryState.isFetching /\ fetches = 0) =>
          ((ENABLED QueryFn) <=> ExpectedEnabled(props))
    /\ CallsOf(calls, "getList") # <<>> => ExpectedEnabled(props)
    /\ props.queryOptions.enabled = Undefined =>
          \A i \in 1..Len(calls) :
              calls[i].fn = "getList" => calls[i].args.resource # ""

\* enabled: true with no resource: getList was called for the resource name ""
C20_Witness ==
    /\ props.resource = Undefined
    /\ props.queryOptions.enabled = Def(TRUE)
    /\ \E i \in 1..Len(calls) : calls[i].fn = "getList" /\ calls[i].args.resource = ""

\* C21: the enabled flag of the subscription of a rendered hook equals the
\* enabled flag of its query, for every queryOptions.enabled and resource.
C21_EnabledAgree ==
    mounted => (Val(subscription).enabled <=> queryEnabled(props))

\* props of one resource, data provider and meta and of equal effective
\* filters, sorters, pagination and pagination mode
SameEffectiveRequest(p, q) ==
    /\ q.resource = p.resource
    /\ q.dataProviderName = p.dataProviderName
    /\ Effective(q.meta, q.metaData) = Effective(p.meta, p.metaData)
    /\ prefferedPagination(q) = prefferedPagination(p)
    /\ EffectiveRequest(q) = EffectiveRequest(p)

\* C22: props of one resource, data provider and meta whose
\* effective filters, sorters, pagination and pagination mode are equal have
\* equal query keys, under whichever option names the values were supplied.
C22_AsStated ==
    ~mounted =>
        \A q \in KeyProps :
            SameEffectiveRequest(props, q) => useQueryKey(q) = useQueryKey(props)

\* C23: in client mode the response select hands on has the total and every
\* other field of the fetched response, only its data being the page; without
\* a select of the caller this is the value returned; the response the query
\* holds is still the one getList gave.
C23_TotalKept ==
    (prefferedPagination(props).mode = "client" /\ IsDefined(queryState.data)) =>
        LET raw == Val(queryState.data)
            handed == IF props.queryOptions.select
                      THEN selectCalls(props, raw)[1].args[1]
                      ELSE Val(useList(props, queryState, elapsedTime).data)
        IN /\ raw \in Responses
           /\ DOMAIN handed = DOMAIN raw
           /\ \A f \in DOMAIN raw \ {"data"} : handed[f] = raw[f]
           /\ handed.total = raw.total
           /\ handed.data = PageOf(raw.data)

\* a page of two records returned with the total of the longer list
C23_Witness ==
    /\ prefferedPagination(props).mode = "client"
    /\ ~props.queryOptions.select
    /\ IsDefined(queryState.data)
    /\ Val(queryState.data).total = MaxItems + 20
    /\ Len(Val(useList(props, queryState, elapsedTime).data).data) = 2
    /\ Val(useList(props, queryState, elapsedTime).data).total = MaxItems + 20

\* C24: a select of the caller is called once, with the page (and the fetched
\* total) in client mode and with the fetched response in server mode, and
\* its result is the data useList returns; without it no such call is made
\* and the page, or the fetched response, is returned.
C24_CallerSelect ==
    IsDefined(queryState.data) =>
        LET raw == Val(queryState.data)
            page == IF prefferedPagination(props).mode = "client"
                    THEN [raw EXCEPT !.data = PageOf(raw.data)]
                    ELSE raw
            returned == Val(useList(props, queryState, elapsedTime).data)
        IN IF props.queryOptions.select
           THEN /\ selectCalls(props, raw) =
                       <<[fn |-> "queryOptions.select", args |-> <<page>>]>>
                /\ returned = queryOptionsSelect(page)
           ELSE /\ selectCalls(props, raw) = <<>>
                /\ returned = page

\* the caller's select got the first page of two records and returned it reversed
C24_Witness ==
    /\ props.queryOptions.select
    /\ prefferedPagination(props).mode = "client"
    /\ IsDefined(queryState.data)
    /\ Len(Val(queryState.data).data) = 3
    /\ selectCalls(props, Val(queryState.data))[1].args[1].data = <<[id |-> 1], [id |-> 2]>>
    /\ Val(useList(props, queryState, elapsedTime).data).data = <<[id |-> 2], [id |-> 1]>>

\* the props asking for page c of the present page size, without a select of the caller
WithCurrent(p, c) ==
    [p EXCEPT !.pagination = Def([current |-> Def(c),
                                  pageSize |-> Def(prefferedPagination(p).pageSize)]),
              !.queryOptions.select = FALSE]

RECURSIVE ConcatPages(_, _, _)
\* the pages 1 .. last of a fetched response, one after the other
ConcatPages(p, rawData, last) ==
    IF last = 0
    THEN <<>>
    ELSE ConcatPages(p, rawData, last - 1) \o select(WithCurrent(p, last), rawData).data

\* C25: in client mode, for a fetched array of length n and the page size p,
\* the pages 1 .. ceil(n/p) one after the other are the fetched array, no
\* page has more than p elements, the pages after ceil(n/p) are empty, and
\* the page returned for the present props is the page of their current.
C25_PagesPartition ==
    (/\ prefferedPagination(props).mode = "client"
     /\ prefferedPagination(props).pageSize >= 1
     /\ IsDefined(queryState.data)) =>
        LET raw == Val(queryState.data)
            n == Len(raw.data)
            p == prefferedPagination(props).pageSize
            pages == (n + p - 1) \div p
        IN /\ ConcatPages(props, raw, pages) = raw.data
           /\ \A c \in 1..(pages + 2) :
                 /\ Len(select(WithCurrent(props, c), raw).data) <= p
                 /\ c > pages => select(WithCurrent(props, c), raw).data = <<>>
           /\ ~props.queryOptions.select =>
                 Val(useList(props, queryState, elapsedTime).data) =
                     select(WithCurrent(props, prefferedPagination(props).current), raw)

\* three records in pages of one: the second page returned is the second record
C25_Witness ==
    /\ prefferedPagination(props).mode = "client"
    /\ ~props.queryOptions.select
    /\ IsDefined(queryState.data)
    /\ Len(Val(queryState.data).data) = 3
    /\ prefferedPagination(props).pageSize = 1
    /\ prefferedPagination(props).current = 2
    /\ Val(useList(props, queryState, elapsedTime).data).data = <<[id |-> 2]>>
    /\ ConcatPages(props, Val(queryState.data), 3) = Val(queryState.data).data

====
